---- MODULE Spec2Model ----
(***************************************************************************)
(* A model of the esssans reduction pipeline (src/esssans/i_of_q.py and    *)
(* src/esssans/normalization.py).  Every provider is a pure function of    *)
(* its arguments: a behaviour is one call.  Init draws the provider (op)   *)
(* and its arguments (inp) from bounded sets, the provider's action        *)
(* computes the returned quantity (out) and moves pc from "call" to        *)
(* "return".                                                               *)
(*                                                                         *)
(* Quantities.  A dense quantity is a record with bins = FALSE, values and *)
(* optional variances; an event-form ("binned") quantity has bins = TRUE   *)
(* and, per outer cell, the list of its event records.  Optional(x) is     *)
(* None or Some(x).  Coordinates are integers; a quotient or a mean is the *)
(* pair [num, den] (den = 0 is the IEEE inf/nan of the division).          *)
(* Histogram bins are half open, [lo, hi), as in scipp.                    *)
(***************************************************************************)
EXTENDS Integers, Sequences, FiniteSets, TLC

VARIABLES op, inp, out, pc

vars == <<op, inp, out, pc>>

\* ------------------------------------------------------------------ bounds

\* Longest event list of one input cell.
MaxEvents == 1

\* Largest weight of one event, largest count and variance of a dense cell.
MaxWeight == 2

\* ----------------------------------------------------------------- helpers

None == <<>>

Some(x) == <<x>>

Ok(v) == [status |-> "ok", value |-> v]

Raise(e) == [status |-> "error", error |-> e]

RECURSIVE SumSeq(_)
SumSeq(s) == IF s = <<>> THEN 0 ELSE Head(s) + SumSeq(Tail(s))

RECURSIVE Flatten(_)
Flatten(ss) == IF ss = <<>> THEN <<>> ELSE Head(ss) \o Flatten(Tail(ss))

Map(s, f(_)) == [i \in DOMAIN s |-> f(s[i])]

\* All sequences over S of length 0..n.
SeqUpTo(S, n) == UNION {[1..k -> S] : k \in 0..n}

\* Index of the half-open bin [edges[i], edges[i+1]) that holds x; 0 if none.
BinOf(edges, x) ==
    IF \E i \in 1..(Len(edges) - 1) : edges[i] <= x /\ x < edges[i + 1]
    THEN CHOOSE i \in 1..(Len(edges) - 1) : edges[i] <= x /\ x < edges[i + 1]
    ELSE 0

NBins(edges) == Len(edges) - 1

\* ------------------------------------------------------------ normalize

\* The Q bin edges numerator and denominator share (both come out of
\* merge_spectra with the same QBins).
NormQEdges == <<0, 2, 4>>

\* Event records of a summed-Q numerator: Q coordinate, weight, variance.
NormEvents(i) ==
    {[Q |-> q, value |-> w, variance |-> w] :
        q \in NormQEdges[i]..(NormQEdges[i + 1] - 1), w \in 1..MaxWeight}

EventNumerators ==
    {[bins |-> TRUE, edges |-> NormQEdges, events |-> ev] :
        ev \in {e \in [1..NBins(NormQEdges) -> SeqUpTo(UNION {NormEvents(i) : i \in 1..NBins(NormQEdges)}, MaxEvents)] :
                   \A i \in DOMAIN e : \A k \in DOMAIN e[i] : e[i][k] \in NormEvents(i)}}

DenseNumerators ==
    {[bins |-> FALSE, edges |-> NormQEdges, values |-> v, variances |-> var] :
        v \in [1..NBins(NormQEdges) -> 0..MaxWeight],
        var \in {None} \cup {Some(x) : x \in [1..NBins(NormQEdges) -> 0..1]}}

Denominators ==
    {[bins |-> FALSE, edges |-> NormQEdges, values |-> v, variances |-> var] :
        v \in [1..NBins(NormQEdges) -> 1..MaxWeight],
        var \in {None} \cup {Some(x) : x \in [1..NBins(NormQEdges) -> 0..1]}}

\* DataArray.hist() of an event-form quantity: sums the events of each bin.
hist(da) ==
    [bins |-> FALSE, edges |-> da.edges,
     values |-> [i \in DOMAIN da.events |-> SumSeq(Map(da.events[i], LAMBDA e : e.value))],
     variances |-> Some([i \in DOMAIN da.events |-> SumSeq(Map(da.events[i], LAMBDA e : e.variance))])]

\* A lookup that answers with the first bin's value wherever the event lies.
lookup_first(denominator, q) == denominator.values[1]

\* sc.lookup(func=denominator, dim='Q'): the denominator value of the bin
\* that holds Q coordinate q.
lookup(denominator, q) == denominator.values[BinOf(denominator.edges, q)]

\* numerator.bins / sc.lookup(...): every event is divided on its own.
BinsDivide(numerator, denominator) ==
    [bins |-> TRUE, edges |-> numerator.edges,
     events |-> [i \in DOMAIN numerator.events |->
                   Map(numerator.events[i],
                       LAMBDA e : [Q |-> e.Q,
                                   value |-> [num |-> e.value, den |-> lookup(denominator, e.Q)],
                                   variance |-> [num |-> e.variance,
                                                 den |-> lookup(denominator, e.Q) * lookup(denominator, e.Q)]])]]

VarOf(da, i) == IF da.variances = None THEN 0 ELSE da.variances[1][i]

\* numerator / denominator on dense data, with first-order propagation.
DenseDivide(numerator, denominator) ==
    [bins |-> FALSE, edges |-> numerator.edges,
     values |-> [i \in DOMAIN numerator.values |->
                   [num |-> numerator.values[i], den |-> denominator.values[i]]],
     variances |->
        IF numerator.variances = None /\ denominator.variances = None THEN None
        ELSE Some([i \in DOMAIN numerator.values |->
                [num |-> VarOf(numerator, i) * denominator.values[i] * denominator.values[i]
                           + VarOf(denominator, i) * numerator.values[i] * numerator.values[i],
                 den |-> denominator.values[i] * denominator.values[i]
                           * denominator.values[i] * denominator.values[i]]])]

\* normalize without the event-mode guard of lines 259-262.
normalize_noguard(numerator, denominator) ==
    IF numerator.bins THEN BinsDivide(numerator, denominator)
    ELSE DenseDivide(numerator, denominator)

normalize(numerator, denominator) ==
    LET num1 == IF denominator.variances # None /\ numerator.bins
                THEN hist(numerator) ELSE numerator
    IN  IF num1.bins THEN BinsDivide(num1, denominator)
        ELSE DenseDivide(num1, denominator)

InitNormalize ==
    /\ op = "normalize"
    /\ inp \in {[numerator |-> n, denominator |-> d] :
                   n \in EventNumerators \cup DenseNumerators, d \in Denominators}
    /\ out = None
    /\ pc = "call"

Normalize ==
    /\ pc = "call"
    /\ op = "normalize"
    /\ out' = Ok(normalize(inp.numerator, inp.denominator))
    /\ pc' = "return"
    /\ UNCHANGED <<op, inp>>

SpecNormalize == InitNormalize /\ [][Normalize]_vars

Returned(o) == pc = "return" /\ op = o

\* C1: normalize returns an event-form quantity exactly when the numerator
\* is in event form and the denominator carries no variances; with a
\* denominator that carries variances the result is always dense.
C1_EventGuard ==
    Returned("normalize") =>
        /\ out.status = "ok"
        /\ out.value.bins = (inp.numerator.bins /\ inp.denominator.variances = None)
        /\ (out.value.bins <=> "events" \in DOMAIN out.value)
        /\ (inp.denominator.variances # None => ~out.value.bins)

\* An event-form numerator was divided by a denominator with variances.
C1_Witness ==
    /\ Returned("normalize")
    /\ inp.numerator.bins
    /\ inp.denominator.variances # None
    /\ \E i \in DOMAIN inp.numerator.events : inp.numerator.events[i] # <<>>
    /\ ~out.value.bins

\* ------------------------------------------------- resample_direct_beam

\* A rational number; values that an interpolation or a mean can produce
\* are kept as rationals throughout.
Rat(n) == [num |-> n, den |-> 1]

\* Target wavelength binnings (bin edges).
WavelengthBinsChoices == {<<0, 2, 4>>, <<1, 3, 5>>, <<0, 1, 4>>}

\* Point-valued wavelength coordinates of a calibration curve.
WavelengthPointChoices == {<<0, 4>>, <<1, 3>>, <<1, 2, 5>>}

DirectBeams ==
    {[wavelength |-> c, values |-> Map(v, Rat), variances |-> var] :
        c \in WavelengthBinsChoices \cup WavelengthPointChoices,
        v \in SeqUpTo(1..MaxWeight, 3),
        var \in {None} \cup {Some(x) : x \in SeqUpTo(0..1, 3)}}

\* Well-formed curves: the coordinate holds one point per value or the bin
\* edges of the values, variances have the shape of the values.
IsDirectBeam(db) ==
    /\ db.values # <<>>
    /\ \/ Len(db.wavelength) = Len(db.values) /\ db.wavelength \in WavelengthPointChoices
       \/ Len(db.wavelength) = Len(db.values) + 1 /\ db.wavelength \in WavelengthBinsChoices
    /\ db.variances # None => Len(db.variances[1]) = Len(db.values)

\* Linear interpolation (with extrapolation at both ends) of the points
\* (x[k], y[k]) at m2 / 2; m2 is twice the abscissa, so that bin midpoints
\* stay integers.
interp1d(x, y, m2) ==
    LET below == {k \in 1..(Len(x) - 1) : 2 * x[k] <= m2}
        k == IF below = {} THEN 1 ELSE CHOOSE j \in below : \A i \in below : i <= j
        dx == x[k + 1] - x[k]
        y0 == y[k].num * y[k + 1].den
        y1 == y[k + 1].num * y[k].den
    IN  [num |-> y0 * 2 * dx + (y1 - y0) * (m2 - 2 * x[k]),
         den |-> y[k].den * y[k + 1].den * 2 * dx]

\* The interpolation branch, lines 117-129.
Interpolated(direct_beam, wavelength_bins) ==
    IF Len(direct_beam.wavelength) # Len(direct_beam.values) \/ Len(direct_beam.values) < 2
    THEN [result |-> Raise("interp1d"), warned |-> direct_beam.variances # None]
    ELSE [result |-> Ok([wavelength |-> wavelength_bins,
                         values |-> [j \in 1..NBins(wavelength_bins) |->
                                       interp1d(direct_beam.wavelength, direct_beam.values,
                                                wavelength_bins[j] + wavelength_bins[j + 1])],
                         variances |-> None]),
          warned |-> direct_beam.variances # None]

\* resample_direct_beam without the early return of lines 115-116.
resample_always(direct_beam, wavelength_bins) ==
    Interpolated(direct_beam, wavelength_bins)

resample_direct_beam(direct_beam, wavelength_bins) ==
    IF direct_beam.wavelength = wavelength_bins
    THEN [result |-> Ok(direct_beam), warned |-> FALSE]
    ELSE Interpolated(direct_beam, wavelength_bins)

InitResample ==
    /\ op = "resample_direct_beam"
    /\ inp \in {[direct_beam |-> db, wavelength_bins |-> wb] :
                   db \in {d \in DirectBeams : IsDirectBeam(d)}, wb \in WavelengthBinsChoices}
    /\ out = None
    /\ pc = "call"

ResampleDirectBeam ==
    /\ pc = "call"
    /\ op = "resample_direct_beam"
    /\ out' = resample_direct_beam(inp.direct_beam, inp.wavelength_bins)
    /\ pc' = "return"
    /\ UNCHANGED <<op, inp>>

SpecResample == InitResample /\ [][ResampleDirectBeam]_vars

\* C2: a direct beam whose wavelength coordinate is identical to the target
\* bins is returned unchanged (values and variances, no warning), and
\* resampling the returned curve onto the same bins returns it again.
C2_Identity ==
    (Returned("resample_direct_beam") /\ inp.direct_beam.wavelength = inp.wavelength_bins) =>
        /\ out.result = Ok(inp.direct_beam)
        /\ ~out.warned
        /\ resample_direct_beam(out.result.value, inp.wavelength_bins) = out

\* A curve with variances, already on the target bins, was resampled.
C2_Witness ==
    /\ Returned("resample_direct_beam")
    /\ inp.direct_beam.wavelength = inp.wavelength_bins
    /\ inp.direct_beam.variances # None
    /\ out.result.status = "ok"

\* -------------------------------------------------- subtract_background

\* Q bin edges of the I(Q) curves: two bins for the enumerated curves, three
\* for the curves [10, 20, 30] and [1, 2, 3].
SubQEdges == <<0, 1, 2>>

SubQEdges3 == <<0, 1, 2, 3>>

IofQEvents(edges, i) ==
    {[Q |-> edges[i], value |-> w, variance |-> w] : w \in 1..MaxWeight}

EventIofQ ==
    {[bins |-> TRUE, edges |-> SubQEdges, events |-> ev] :
        ev \in {e \in [1..NBins(SubQEdges) ->
                        SeqUpTo(UNION {IofQEvents(SubQEdges, i) : i \in 1..NBins(SubQEdges)}, MaxEvents)] :
                   \A i \in DOMAIN e : \A k \in DOMAIN e[i] : e[i][k] \in IofQEvents(SubQEdges, i)}}

DenseIofQ ==
    {[bins |-> FALSE, edges |-> SubQEdges, values |-> v, variances |-> var] :
        v \in [1..NBins(SubQEdges) -> 0..MaxWeight],
        var \in {None} \cup {Some(x) : x \in [1..NBins(SubQEdges) -> 0..1]}}

\* The curve with content c per Q bin, in dense form and as one event per bin.
DenseCurve(c) == [bins |-> FALSE, edges |-> SubQEdges3, values |-> c, variances |-> None]

EventCurve(c) ==
    [bins |-> TRUE, edges |-> SubQEdges3,
     events |-> [i \in DOMAIN c |-> <<[Q |-> SubQEdges3[i], value |-> c[i], variance |-> c[i]]>>]]

ExampleSample == <<10, 20, 30>>

ExampleBackground == <<1, 2, 3>>

\* da.bins.sum(): the events of every bin summed.
bins_sum(da) ==
    [bins |-> FALSE, edges |-> da.edges,
     values |-> [i \in DOMAIN da.events |-> SumSeq(Map(da.events[i], LAMBDA e : e.value))],
     variances |-> Some([i \in DOMAIN da.events |-> SumSeq(Map(da.events[i], LAMBDA e : e.variance))])]

\* sample - background on dense data; the Q coordinates must match.
DenseSubtract(a, b) ==
    IF a.edges # b.edges THEN Raise("DatasetError")
    ELSE Ok([bins |-> FALSE, edges |-> a.edges,
             values |-> [i \in DOMAIN a.values |-> a.values[i] - b.values[i]],
             variances |-> IF a.variances = None /\ b.variances = None THEN None
                           ELSE Some([i \in DOMAIN a.values |-> VarOf(a, i) + VarOf(b, i)])])

\* subtract_background with the operands of line 255 exchanged.
subtract_swapped(sample, background) ==
    LET s == IF sample.bins THEN bins_sum(sample) ELSE sample
        b == IF background.bins THEN bins_sum(background) ELSE background
    IN  DenseSubtract(b, s)

subtract_background(sample, background) ==
    LET s == IF sample.bins THEN bins_sum(sample) ELSE sample
        b == IF background.bins THEN bins_sum(background) ELSE background
    IN  DenseSubtract(s, b)

InitSubtract ==
    /\ op = "subtract_background"
    /\ inp \in {[sample |-> s, background |-> b] :
                    s \in EventIofQ \cup DenseIofQ, b \in EventIofQ \cup DenseIofQ}
               \cup {[sample |-> s, background |-> b] :
                    s \in {DenseCurve(ExampleSample), EventCurve(ExampleSample)},
                    b \in {DenseCurve(ExampleBackground), EventCurve(ExampleBackground)}}
    /\ out = None
    /\ pc = "call"

SubtractBackground ==
    /\ pc = "call"
    /\ op = "subtract_background"
    /\ out' = subtract_background(inp.sample, inp.background)
    /\ pc' = "return"
    /\ UNCHANGED <<op, inp>>

SpecSubtract == InitSubtract /\ [][SubtractBackground]_vars

\* The summed content of Q bin i of an I(Q) curve in either form.
Content(da, i) ==
    IF da.bins THEN SumSeq(Map(da.events[i], LAMBDA e : e.value)) ELSE da.values[i]

Modes == {"drop", "upper_bound", "fail"}

ModeValues == Modes \cup {"unrecognized"}

RatSub(a, b) == [num |-> a.num * b.den - b.num * a.den, den |-> a.den * b.den]

RatAdd(a, b) == [num |-> a.num * b.den + b.num * a.den, den |-> a.den * b.den]

\* ------------------------------------------------ preprocess_monitor_data

\* Wavelength bin edges of a raw monitor (unit bins).
RawEdges == <<0, 1, 2, 3, 4>>

DenseMonitors ==
    {[bins |-> FALSE, edges |-> RawEdges, values |-> v,
      variances |-> IF hasvar THEN Some(v) ELSE None] :
        v \in [1..NBins(RawEdges) -> 0..MaxWeight], hasvar \in BOOLEAN}

EventMonitors ==
    {[bins |-> TRUE, edges |-> RawEdges, events |-> ev] :
        ev \in SeqUpTo({[wavelength |-> w, value |-> 1, variance |-> 1] :
                           w \in RawEdges[1]..(RawEdges[Len(RawEdges)] - 1)}, MaxEvents + 1)}

NonBackgroundRanges ==
    {None} \cup {Some(<<RawEdges[p[1]], RawEdges[p[2]]>>) :
                    p \in {q \in (DOMAIN RawEdges) \X (DOMAIN RawEdges) : q[1] < q[2]}}

\* mask_range(monitor, mask): the raw bins inside the range are masked.
mask_range(monitor, range) ==
    [values |-> monitor.values, variances |-> monitor.variances,
     mask |-> [i \in 1..NBins(monitor.edges) |->
                 range[1] <= monitor.edges[i] /\ monitor.edges[i] < range[2]]]

\* .mean(): the mean over the bins that are not masked.
mean(masked) ==
    LET keep == SelectSeq([i \in DOMAIN masked.values |-> i], LAMBDA i : ~masked.mask[i])
    IN  [value |-> [num |-> SumSeq(Map(keep, LAMBDA i : masked.values[i])), den |-> Len(keep)],
         variance |-> IF masked.variances = None THEN None
                      ELSE Some([num |-> SumSeq(Map(keep, LAMBDA i : masked.variances[1][i])),
                                 den |-> Len(keep) * Len(keep)])]

\* monitor.hist(wavelength=wavelength_bins) of an event-form monitor.
hist_wavelength(monitor, wavelength_bins) ==
    LET inbin(j) == SelectSeq(monitor.events,
                       LAMBDA e : wavelength_bins[j] <= e.wavelength /\ e.wavelength < wavelength_bins[j + 1])
    IN  [wavelength |-> wavelength_bins,
         values |-> [j \in 1..NBins(wavelength_bins) |-> Rat(SumSeq(Map(inbin(j), LAMBDA e : e.value)))],
         variances |-> Some([j \in 1..NBins(wavelength_bins) |->
                               Rat(SumSeq(Map(inbin(j), LAMBDA e : e.variance)))])]

\* monitor.rebin(wavelength=wavelength_bins) of a dense monitor: every raw
\* bin lies inside one target bin or outside all of them.
rebin(monitor, wavelength_bins) ==
    LET inbin(j) == SelectSeq([i \in DOMAIN monitor.values |-> i],
                       LAMBDA i : wavelength_bins[j] <= monitor.edges[i]
                                  /\ monitor.edges[i] < wavelength_bins[j + 1])
    IN  [wavelength |-> wavelength_bins,
         values |-> [j \in 1..NBins(wavelength_bins) |->
                       Rat(SumSeq(Map(inbin(j), LAMBDA i : monitor.values[i])))],
         variances |-> IF monitor.variances = None THEN None
                       ELSE Some([j \in 1..NBins(wavelength_bins) |->
                               Rat(SumSeq(Map(inbin(j), LAMBDA i : monitor.variances[1][i])))])]

\* sc.values(background)
values(q) == [q EXCEPT !.variance = None]

\* broadcast_with_upper_bound_variances(background, sizes=monitor.sizes): the
\* variance of the scalar is multiplied by the number of elements it is
\* broadcast to.
upper_bound_scalar(background, n) ==
    IF background.variance = None THEN background
    ELSE [background EXCEPT !.variance = Some([num |-> background.variance[1].num * n,
                                                den |-> background.variance[1].den])]

\* monitor -= b for a scalar b without variances, or with variances that
\* were made safe to broadcast.
SubtractScalar(monitor, b) ==
    [monitor EXCEPT
        !.values = [j \in DOMAIN monitor.values |-> RatSub(monitor.values[j], b.value)],
        !.variances = IF b.variance = None THEN monitor.variances
                      ELSE Some([j \in DOMAIN monitor.values |->
                                   RatAdd(IF monitor.variances = None THEN Rat(0)
                                          ELSE monitor.variances[1][j], b.variance[1])])]

\* monitor -= background: scipp refuses to broadcast an operand that has
\* variances.
SubtractBroadcast(monitor, background) ==
    IF background.variance # None THEN Raise("VariancesError")
    ELSE Ok(SubtractScalar(monitor, background))

Rebinned(monitor, wavelength_bins) ==
    IF monitor.bins THEN hist_wavelength(monitor, wavelength_bins)
    ELSE rebin(monitor, wavelength_bins)

\* preprocess_monitor_data whose drop branch (line 85) takes the
\* upper-bound branch (lines 87-89) instead.
preprocess_keepvar(monitor, wavelength_bins, non_background_range, uncertainties) ==
    LET background == IF non_background_range # None
                      THEN Some(mean(mask_range(monitor, non_background_range[1])))
                      ELSE None
        mon == Rebinned(monitor, wavelength_bins)
    IN  IF background = None THEN Ok(mon)
        ELSE IF uncertainties \in {"drop", "upper_bound"}
        THEN Ok(SubtractScalar(mon, upper_bound_scalar(background[1], Len(mon.values))))
        ELSE SubtractBroadcast(mon, background[1])

preprocess_monitor_data(monitor, wavelength_bins, non_background_range, uncertainties) ==
    LET background == IF non_background_range # None
                      THEN Some(mean(mask_range(monitor, non_background_range[1])))
                      ELSE None
        mon == Rebinned(monitor, wavelength_bins)
    IN  IF background = None THEN Ok(mon)
        ELSE IF uncertainties = "drop" THEN Ok(SubtractScalar(mon, values(background[1])))
        ELSE IF uncertainties = "upper_bound"
        THEN Ok(SubtractScalar(mon, upper_bound_scalar(background[1], Len(mon.values))))
        ELSE SubtractBroadcast(mon, background[1])

\* An event-form monitor is given without a non-background range: the mean
\* of line 76 is taken over the bins of a histogram.
InitPreprocess ==
    /\ op = "preprocess_monitor_data"
    /\ inp \in {[monitor |-> m, wavelength_bins |-> wb, non_background_range |-> r,
                 uncertainties |-> u] :
                   m \in DenseMonitors, wb \in WavelengthBinsChoices,
                   r \in NonBackgroundRanges, u \in ModeValues}
               \cup {[monitor |-> m, wavelength_bins |-> wb, non_background_range |-> None,
                      uncertainties |-> u] :
                   m \in EventMonitors, wb \in WavelengthBinsChoices, u \in ModeValues}
    /\ out = None
    /\ pc = "call"

PreprocessMonitorData ==
    /\ pc = "call"
    /\ op = "preprocess_monitor_data"
    /\ out' = preprocess_monitor_data(inp.monitor, inp.wavelength_bins,
                                      inp.non_background_range, inp.uncertainties)
    /\ pc' = "return"
    /\ UNCHANGED <<op, inp>>

\* ------------------------------- iofq_norm_wavelength_term, iofq_denominator

\* A dense quantity over (pixel, wavelength): rows[p][w].  A quantity that
\* has no pixel dimension has one row, one that has no wavelength dimension
\* has rows of one element; dims names the dimensions it has.
sizes(da) ==
    [d \in da.dims |-> IF d = "pixel" THEN Len(da.rows) ELSE Len(da.rows[1])]

\* Wavelength bin edges of the clean monitors.
MonitorEdges == <<0, 2, 4>>

WavelengthRows == [1..NBins(MonitorEdges) -> 1..MaxWeight]

\* Wavelength-dependent quantities (clean monitors, wavelength terms).
WavelengthCurves ==
    {[dims |-> {"wavelength"}, wavelength |-> MonitorEdges, rows |-> <<r>>,
      variances |-> IF hasvar THEN Some(<<r>>) ELSE None] :
        r \in WavelengthRows, hasvar \in BOOLEAN}

TransmissionFractions ==
    {[dims |-> {"wavelength"}, wavelength |-> MonitorEdges,
      rows |-> <<[w \in 1..NBins(MonitorEdges) |-> 1]>>, variances |-> None],
     [dims |-> {"wavelength"}, wavelength |-> MonitorEdges,
      rows |-> <<[w \in 1..NBins(MonitorEdges) |-> w]>>,
      variances |-> Some(<<[w \in 1..NBins(MonitorEdges) |-> 1]>>)]}

\* Direct beams that depend on the pixel as well (two pixels).
PixelCurves ==
    {[dims |-> {"pixel", "wavelength"}, wavelength |-> MonitorEdges, rows |-> <<r1, r2>>,
      variances |-> IF hasvar THEN Some(<<r1, r2>>) ELSE None] :
        r1 \in WavelengthRows, r2 \in WavelengthRows, hasvar \in BOOLEAN}

\* Solid angles of two pixels.
SolidAngles ==
    {[dims |-> {"pixel"}, rows |-> <<<<a>>, <<b>>>>, variances |-> None] :
        a \in 1..MaxWeight, b \in 1..MaxWeight}

At(rows, p, w) ==
    LET row == IF Len(rows) = 1 THEN rows[1] ELSE rows[p]
    IN  IF Len(row) = 1 THEN row[1] ELSE row[w]

VarAt(da, p, w) == IF da.variances = None THEN 0 ELSE At(da.variances[1], p, w)

Max(a, b) == IF a >= b THEN a ELSE b

\* a * b with broadcasting; scipp raises when an operand that has variances
\* would be broadcast.
Multiply(a, b) ==
    IF \/ a.variances # None /\ ~(b.dims \subseteq a.dims)
       \/ b.variances # None /\ ~(a.dims \subseteq b.dims)
    THEN Raise("VariancesError")
    ELSE LET np == Max(Len(a.rows), Len(b.rows))
             nw == Max(Len(a.rows[1]), Len(b.rows[1]))
         IN  Ok([dims |-> a.dims \cup b.dims,
                 rows |-> [p \in 1..np |-> [w \in 1..nw |-> At(a.rows, p, w) * At(b.rows, p, w)]],
                 variances |->
                    IF a.variances = None /\ b.variances = None THEN None
                    ELSE Some([p \in 1..np |-> [w \in 1..nw |->
                            At(a.rows, p, w) * At(a.rows, p, w) * VarAt(b, p, w)
                            + At(b.rows, p, w) * At(b.rows, p, w) * VarAt(a, p, w)]])])

\* _no_variance_broadcast(data, sizes) of esssans.uncertainty
no_variance_broadcast(data, target) ==
    \/ data.variances = None
    \/ \A d \in DOMAIN target : d \in data.dims /\ sizes(data)[d] = target[d]

\* drop_variances_if_broadcast(data, sizes)
drop_variances_if_broadcast(data, target) ==
    IF no_variance_broadcast(data, target) THEN data
    ELSE [data EXCEPT !.variances = None]

\* broadcast_with_upper_bound_variances(data, sizes): broadcast to the
\* target sizes, the variances multiplied by the number of copies made.
broadcast_with_upper_bound_variances(data, target) ==
    IF no_variance_broadcast(data, target) THEN data
    ELSE LET np == IF "pixel" \in DOMAIN target /\ "pixel" \notin data.dims
                   THEN target["pixel"] ELSE Len(data.rows)
             nw == IF "wavelength" \in DOMAIN target /\ "wavelength" \notin data.dims
                   THEN target["wavelength"] ELSE Len(data.rows[1])
             copies == (np * nw) \div (Len(data.rows) * Len(data.rows[1]))
         IN  [data EXCEPT
                !.dims = data.dims \cup DOMAIN target,
                !.rows = [p \in 1..np |-> [w \in 1..nw |-> At(data.rows, p, w)]],
                !.variances = Some([p \in 1..np |-> [w \in 1..nw |->
                                       copies * At(data.variances[1], p, w)]])]

\* _broadcasters[uncertainties] applied to (x, sizes); a mode that is no key
\* of the table is a KeyError.
Broadcasters(uncertainties, x, target) ==
    CASE uncertainties = "drop" -> Ok(drop_variances_if_broadcast(x, target))
      [] uncertainties = "upper_bound" -> Ok(broadcast_with_upper_bound_variances(x, target))
      [] uncertainties = "fail" -> Ok(x)
      [] OTHER -> Raise("KeyError")

\* sc.midpoints of a bin-edge coordinate (the edges are an even distance apart)
midpoints(edges) == [j \in 1..NBins(edges) |-> (edges[j] + edges[j + 1]) \div 2]

WithMidpoints(res) ==
    IF res.status = "error" THEN res
    ELSE Ok([dims |-> res.value.dims, rows |-> res.value.rows,
             variances |-> res.value.variances, wavelength |-> midpoints(MonitorEdges)])

iofq_norm_wavelength_term(incident_monitor, transmission_fraction, direct_beam, uncertainties) ==
    LET prod == Multiply(incident_monitor, transmission_fraction)
    IN  IF direct_beam = None THEN WithMidpoints(prod)
        ELSE LET broadcast == Broadcasters(uncertainties, prod.value, sizes(direct_beam[1]))
             IN  IF broadcast.status = "error" THEN broadcast
                 ELSE WithMidpoints(Multiply(direct_beam[1], broadcast.value))

\* iofq_denominator with a table lookup that falls back to the entry of
\* fail for a mode that is no key.
iofq_denominator_default(wavelength_term, solid_angle, uncertainties) ==
    LET broadcast == Broadcasters(IF uncertainties \in Modes THEN uncertainties ELSE "fail",
                                  wavelength_term, sizes(solid_angle))
    IN  Multiply(solid_angle, broadcast.value)

iofq_denominator(wavelength_term, solid_angle, uncertainties) ==
    LET broadcast == Broadcasters(uncertainties, wavelength_term, sizes(solid_angle))
    IN  IF broadcast.status = "error" THEN broadcast
        ELSE Multiply(solid_angle, broadcast.value)

InitNormTerm ==
    /\ op = "iofq_norm_wavelength_term"
    /\ inp \in {[incident_monitor |-> m, transmission_fraction |-> t, direct_beam |-> d,
                 uncertainties |-> u] :
                   m \in WavelengthCurves, t \in TransmissionFractions,
                   d \in {None} \cup {Some(x) : x \in WavelengthCurves \cup PixelCurves},
                   u \in ModeValues}
    /\ out = None
    /\ pc = "call"

IofqNormWavelengthTerm ==
    /\ pc = "call"
    /\ op = "iofq_norm_wavelength_term"
    /\ out' = iofq_norm_wavelength_term(inp.incident_monitor, inp.transmission_fraction,
                                        inp.direct_beam, inp.uncertainties)
    /\ pc' = "return"
    /\ UNCHANGED <<op, inp>>

InitDenominator ==
    /\ op = "iofq_denominator"
    /\ inp \in {[wavelength_term |-> [t EXCEPT !.wavelength = midpoints(MonitorEdges)],
                 solid_angle |-> a, uncertainties |-> u] :
                   t \in WavelengthCurves \cup PixelCurves, a \in SolidAngles, u \in ModeValues}
    /\ out = None
    /\ pc = "call"

IofqDenominator ==
    /\ pc = "call"
    /\ op = "iofq_denominator"
    /\ out' = iofq_denominator(inp.wavelength_term, inp.solid_angle, inp.uncertainties)
    /\ pc' = "return"
    /\ UNCHANGED <<op, inp>>

\* The three providers that take the UncertaintyBroadcastMode.
InitBroadcast == InitPreprocess \/ InitNormTerm \/ InitDenominator

NextBroadcast == PreprocessMonitorData \/ IofqNormWavelengthTerm \/ IofqDenominator

SpecBroadcast == InitBroadcast /\ [][NextBroadcast]_vars

TakesMode ==
    op \in {"preprocess_monitor_data", "iofq_norm_wavelength_term", "iofq_denominator"}

\* C3 (as claimed): every stage that takes the mode fails, and returns no
\* result, when the mode is none of drop, upper_bound, fail.
C3_AlwaysFatal ==
    (pc = "return" /\ TakesMode /\ inp.uncertainties \notin Modes) => out.status = "error"

\* C3 (amended): an unrecognized mode is a KeyError exactly where the table
\* of broadcasters is looked up: always in iofq_denominator, in
\* iofq_norm_wavelength_term if and only if a direct beam is given (without
\* one the term is returned); preprocess_monitor_data never rejects the
\* mode: it does what it does for fail when there is a non-background range
\* and returns the pure rebinning when there is none.
C3_FatalAtLookup ==
    (pc = "return" /\ TakesMode /\ inp.uncertainties \notin Modes) =>
        /\ op = "iofq_denominator" => out = Raise("KeyError")
        /\ op = "iofq_norm_wavelength_term" =>
              /\ inp.direct_beam # None => out = Raise("KeyError")
              /\ inp.direct_beam = None =>
                    /\ out.status = "ok"
                    /\ out.value.rows =
                          Multiply(inp.incident_monitor, inp.transmission_fraction).value.rows
        /\ op = "preprocess_monitor_data" =>
              /\ out # Raise("KeyError")
              /\ out = preprocess_monitor_data(inp.monitor, inp.wavelength_bins,
                                               inp.non_background_range, "fail")
              /\ inp.non_background_range = None =>
                    out = Ok(Rebinned(inp.monitor, inp.wavelength_bins))

\* iofq_denominator was called with an unrecognized mode and raised.
C3_Witness ==
    /\ Returned("iofq_denominator")
    /\ inp.uncertainties \notin Modes
    /\ out = Raise("KeyError")

MaxMergeEvents == 2

\* Most bands of a well-formed band coordinate.
MaxBands == 2

\* An array: the names and sizes of its dimensions and its cells in
\* row-major order.  A cell of an event-form array is its event list, a cell
\* of a dense array its value.
Array(isbins, dims, shape, cells) ==
    [bins |-> isbins, dims |-> dims, shape |-> shape, cells |-> cells]

MinOf(S) == CHOOSE x \in S : \A y \in S : x <= y

MaxOf(S) == CHOOSE x \in S : \A y \in S : x >= y

Range(f) == {f[i] : i \in DOMAIN f}

Indices(f) == [i \in 1..Len(f) |-> i]

\* Wavelength bin edges of dense detector data; event wavelengths lie in
\* the same range.
MergeWavEdges == <<0, 2, 4>>

\* The Q coordinate of every pixel and wavelength bin, Q[pixel][bin].
QGeometries == {<<<<0, 1>>, <<1, 2>>>>, <<<<1, 1>>, <<2, 0>>>>}

PixelsOf(geometry) == 1..Len(geometry)

\* Where an event can be: a pixel and a wavelength.
EventSlots(geometry) ==
    {<<p, w>> : p \in PixelsOf(geometry),
                w \in MergeWavEdges[1]..(MergeWavEdges[Len(MergeWavEdges)] - 1)}

RECURSIVE SumOver(_, _)
SumOver(f, S) ==
    IF S = {} THEN 0 ELSE LET x == CHOOSE y \in S : TRUE IN f[x] + SumOver(f, S \ {x})

\* Detector counts: how many events each slot holds.
Detections(geometry) ==
    {c \in [EventSlots(geometry) -> 0..MaxMergeEvents] :
        SumOver(c, EventSlots(geometry)) <= MaxMergeEvents}

Copies(x, n) == [k \in 1..n |-> x]

\* The event list of pixel p, in order of wavelength.
PixelEvents(geometry, counts, p) ==
    Flatten([k \in 1..(MergeWavEdges[Len(MergeWavEdges)] - MergeWavEdges[1]) |->
        LET w == MergeWavEdges[1] + k - 1
        IN  Copies([Q |-> geometry[p][BinOf(MergeWavEdges, w)], wavelength |-> w, weight |-> 1],
                   counts[<<p, w>>])])

EventData(geometry, counts) ==
    [bins |-> TRUE, dims |-> <<"pixel">>,
     events |-> [p \in PixelsOf(geometry) |-> PixelEvents(geometry, counts, p)]]

\* The dense data with the same counts per pixel and wavelength bin.
DenseData(geometry, counts) ==
    [bins |-> FALSE, dims |-> <<"pixel", "wavelength">>, wavelength |-> MergeWavEdges,
     Q |-> geometry,
     values |-> [p \in PixelsOf(geometry) |-> [b \in 1..NBins(MergeWavEdges) |->
                   Len(SelectSeq(PixelEvents(geometry, counts, p),
                                 LAMBDA e : BinOf(MergeWavEdges, e.wavelength) = b))]]]

\* QBins: a number of bins or bin edges.
QBinsChoices ==
    {[int |-> TRUE, n |-> 2], [int |-> FALSE, edges |-> <<0, 2>>],
     [int |-> FALSE, edges |-> <<0, 1, 3>>]}

\* Wavelength ranges of a band: the full range, its lower half, and a range
\* that overlaps the half and cuts through the dense wavelength bins.
BandRanges == {<<0, 4>>, <<0, 2>>, <<1, 3>>}

\* Lists of different ranges.
RangeLists(n) ==
    {rs \in SeqUpTo(BandRanges, n) : rs # <<>> /\ \A i, j \in DOMAIN rs : i # j => rs[i] # rs[j]}

\* A coordinate: the names and sizes of its dimensions, its values row-major.
Coord(dims, shape, data) == [dims |-> dims, shape |-> shape, data |-> data]

FlatBands == {Coord(<<"wavelength">>, <<2>>, r) : r \in BandRanges}

ShapedBands ==
    {Coord(<<"band", "wavelength">>, <<Len(rs), 2>>, Flatten(rs)) :
        rs \in RangeLists(MaxBands)}

\* Band coordinates that do not have one dimension besides wavelength.
IllFormedBands ==
    {Coord(<<>>, <<>>, <<0>>), Coord(<<"band">>, <<2>>, <<0, 4>>)}
    \cup {Coord(<<"a", "b", "wavelength">>, <<Len(rs), 1, 2>>, Flatten(rs)) :
            rs \in {<<<<0, 4>>>>, <<<<0, 2>>, <<1, 3>>>>, <<<<1, 3>>, <<0, 4>>>>}}

ndim(c) == Len(c.dims)

\* wavelength_bands.fold(dim='wavelength', sizes={'band': 1, **sizes})
fold(c) ==
    IF c.dims # <<"wavelength">> THEN Raise("DimensionError")
    ELSE Ok(Coord(<<"band", "wavelength">>, <<1>> \o c.shape, c.data))

\* sc.collapse(wavelength_bands, keep='wavelength').values(): the 1-D
\* wavelength slices, one per combination of the other dimensions.
collapse(c) ==
    LET n == c.shape[Len(c.shape)]
    IN  [k \in 1..(Len(c.data) \div n) |-> SubSeq(c.data, (k - 1) * n + 1, k * n)]

\* out.squeeze(): the dimensions of size 1 are removed.
squeeze(a) ==
    LET keep == SelectSeq(Indices(a.dims), LAMBDA i : a.shape[i] # 1)
    IN  [a EXCEPT !.dims = [k \in 1..Len(keep) |-> a.dims[keep[k]]],
                  !.shape = [k \in 1..Len(keep) |-> a.shape[keep[k]]]]

\* sc.concat([out, band], dim): along dim if out has it, else along a new
\* outer dimension.
concat2(a, b, dim) ==
    IF a.dims # <<>> /\ a.dims[1] = dim
    THEN [a EXCEPT !.shape = <<a.shape[1] + 1>> \o Tail(a.shape), !.cells = a.cells \o b.cells]
    ELSE [a EXCEPT !.dims = <<dim>> \o a.dims, !.shape = <<2>> \o a.shape,
                   !.cells = a.cells \o b.cells]

\* sc.concat(bands, dim) of a list of arrays of the same dimensions.
concat(as, dim) ==
    Array(as[1].bins, <<dim>> \o as[1].dims, <<Len(as)>> \o as[1].shape,
          Flatten([k \in DOMAIN as |-> as[k].cells]))

\* _to_q_bins
to_q_bins(q_bins) ==
    IF q_bins.int THEN [dim |-> "Q", n |-> q_bins.n, auto |-> TRUE, edges |-> <<>>]
    ELSE [dim |-> "Q", n |-> NBins(q_bins.edges), auto |-> FALSE, edges |-> q_bins.edges]

\* The Q bin (1..n, 0 for none) of coordinate q.  A number of bins stands for
\* n equal bins from the least coordinate qs holds to just above the
\* greatest, so that the greatest is in the last bin.
QBinOf(edges, qs, q) ==
    IF ~edges.auto THEN BinOf(edges.edges, q)
    ELSE LET lo == MinOf(qs)
             hi == MaxOf(qs)
         IN  IF q = lo THEN 1
             ELSE ((q - lo) * edges.n + (hi - lo) - 1) \div (hi - lo)

\* q_all_pixels.bin(Q=...)
bin_Q(events, edges) ==
    LET qs == {events[k].Q : k \in DOMAIN events}
    IN  Array(TRUE, <<"Q">>, <<edges.n>>,
              [i \in 1..edges.n |-> SelectSeq(events, LAMBDA e : QBinOf(edges, qs, e.Q) = i)])

\* Half-open bins with the lower edge excluded and the upper included.
InBandUpper(wav_range, j, w) == wav_range[j] < w /\ w <= wav_range[j + 1]

InBand(wav_range, j, w) == wav_range[j] <= w /\ w < wav_range[j + 1]

\* bin_wavelength with the lower edge of a bin excluded from it.
bin_wavelength_upper(a, wav_range) ==
    LET m == NBins(wav_range)
    IN  Array(TRUE, a.dims \o <<"wavelength">>, a.shape \o <<m>>,
              [k \in 1..(Len(a.cells) * m) |->
                  SelectSeq(a.cells[((k - 1) \div m) + 1],
                            LAMBDA e : InBandUpper(wav_range, ((k - 1) % m) + 1, e.wavelength))])

\* q_binned.bin(wavelength=wav_range): a new inner dimension wavelength.
bin_wavelength(a, wav_range) ==
    LET m == NBins(wav_range)
    IN  Array(TRUE, a.dims \o <<"wavelength">>, a.shape \o <<m>>,
              [k \in 1..(Len(a.cells) * m) |->
                  SelectSeq(a.cells[((k - 1) \div m) + 1],
                            LAMBDA e : InBand(wav_range, ((k - 1) % m) + 1, e.wavelength))])

\* The loop with the operands of the concatenation of line 223 exchanged.
RECURSIVE EventBandsReversed(_, _, _, _, _)
EventBandsReversed(q_binned, ranges, band_dim, k, acc) ==
    IF k > Len(ranges) THEN acc
    ELSE LET band == squeeze(bin_wavelength(q_binned, ranges[k]))
         IN  EventBandsReversed(q_binned, ranges, band_dim, k + 1,
                        IF acc = None THEN Some(band)
                        ELSE Some([concat2(acc[1], band, band_dim)
                                     EXCEPT !.cells = band.cells \o acc[1].cells]))

\* The loop of lines 217-224 over the wavelength ranges from the k-th on.
RECURSIVE EventBands(_, _, _, _, _)
EventBands(q_binned, ranges, band_dim, k, acc) ==
    IF k > Len(ranges) THEN acc
    ELSE LET band == squeeze(bin_wavelength(q_binned, ranges[k]))
         IN  EventBands(q_binned, ranges, band_dim, k + 1,
                        IF acc = None THEN Some(band)
                        ELSE Some(concat2(acc[1], band, band_dim)))

\* set(wavelength_bands.dims) - {'wavelength'}, from which pop() takes any.
BandDims(wavelength_bands) == Range(wavelength_bands.dims) \ {"wavelength"}

events_merge_spectra(data_q, q_bins, final_dims, wavelength_bands, band_dim) ==
    LET q_all_pixels == Flatten(data_q.events)
        edges == to_q_bins(q_bins)
        q_binned == bin_Q(q_all_pixels, edges)
    IN  IF wavelength_bands = None THEN Ok(q_binned)
        ELSE IF BandDims(wavelength_bands[1]) = {} THEN Raise("KeyError")
        ELSE Ok(EventBands(q_binned, collapse(wavelength_bands[1]), band_dim, 1, None)[1])

\* slice_wavelength that takes the bin that begins at hi as well.
slice_inclusive(data_q, lo, hi) ==
    LET e == data_q.wavelength
        first == Max(1, Cardinality({i \in DOMAIN e : e[i] <= lo}))
        last == Cardinality({i \in DOMAIN e : e[i] <= hi})
        sel == SelectSeq(Indices(data_q.values[1]),
                         LAMBDA b : first <= b /\ b <= last /\ b <= NBins(e))
    IN  Flatten([p \in DOMAIN data_q.values |->
                   [k \in DOMAIN sel |-> [Q |-> data_q.Q[p][sel[k]],
                                           value |-> data_q.values[p][sel[k]]]]])

\* data_q['wavelength', lo:hi] on the bin-edge coordinate: from the bin that
\* holds lo up to the bins that begin before hi.  The result lists the
\* selected cells, each with its Q coordinate and value.
slice_wavelength(data_q, lo, hi) ==
    LET e == data_q.wavelength
        first == Max(1, Cardinality({i \in DOMAIN e : e[i] <= lo}))
        last == Cardinality({i \in DOMAIN e : e[i] < hi})
        sel == SelectSeq(Indices(data_q.values[1]),
                         LAMBDA b : first <= b /\ b <= last /\ b <= NBins(e))
    IN  Flatten([p \in DOMAIN data_q.values |->
                   [k \in DOMAIN sel |-> [Q |-> data_q.Q[p][sel[k]],
                                           value |-> data_q.values[p][sel[k]]]]])

\* .hist(Q=...).sum(sum_dims) of the listed cells.
hist_sum(cells, edges) ==
    LET qs == {cells[k].Q : k \in DOMAIN cells}
    IN  Array(FALSE, <<"Q">>, <<edges.n>>,
              [i \in 1..edges.n |->
                  SumSeq(Map(SelectSeq(cells, LAMBDA c : QBinOf(edges, qs, c.Q) = i),
                             LAMBDA c : c.value))])

dense_merge_spectra(data_q, q_bins, final_dims, wavelength_bands, band_dim) ==
    LET edges == to_q_bins(q_bins)
        e == data_q.wavelength
    IN  IF wavelength_bands = None
        THEN Ok(hist_sum(slice_wavelength(data_q, e[1], e[Len(e)]), edges))
        ELSE IF BandDims(wavelength_bands[1]) = {} THEN Raise("KeyError")
        ELSE LET ranges == collapse(wavelength_bands[1])
                 bands == [k \in DOMAIN ranges |->
                             hist_sum(slice_wavelength(data_q, ranges[k][1], ranges[k][2]), edges)]
             IN  Ok(concat(bands, band_dim))

\* merge_spectra without the squeeze of line 182.
merge_nosqueeze(data, q_bins, wavelength_bands, final_dims, band_dim) ==
    LET final_dims1 == IF final_dims = None THEN <<"Q">> ELSE final_dims
        folded == IF wavelength_bands # None /\ ndim(wavelength_bands[1]) = 1
                  THEN fold(wavelength_bands[1]) ELSE Ok(None)
        wavelength_bands1 == IF wavelength_bands # None /\ ndim(wavelength_bands[1]) = 1
                             THEN Some(folded.value) ELSE wavelength_bands
    IN  IF folded.status = "error" THEN folded
        ELSE IF data.bins
        THEN events_merge_spectra(data, q_bins, final_dims1, wavelength_bands1, band_dim)
        ELSE dense_merge_spectra(data, q_bins, final_dims1, wavelength_bands1, band_dim)

merge_spectra(data, q_bins, wavelength_bands, final_dims, band_dim) ==
    LET final_dims1 == IF final_dims = None THEN <<"Q">> ELSE final_dims
        folded == IF wavelength_bands # None /\ ndim(wavelength_bands[1]) = 1
                  THEN fold(wavelength_bands[1]) ELSE Ok(None)
        wavelength_bands1 == IF wavelength_bands # None /\ ndim(wavelength_bands[1]) = 1
                             THEN Some(folded.value) ELSE wavelength_bands
    IN  IF folded.status = "error" THEN folded
        ELSE LET res == IF data.bins
                        THEN events_merge_spectra(data, q_bins, final_dims1, wavelength_bands1, band_dim)
                        ELSE dense_merge_spectra(data, q_bins, final_dims1, wavelength_bands1, band_dim)
             IN  IF res.status = "error" THEN res ELSE Ok(squeeze(res.value))

\* What pop() can return for the band coordinate the paths see.
PopChoices(wavelength_bands) ==
    IF wavelength_bands = None THEN {"none"}
    ELSE IF wavelength_bands[1].dims = <<"wavelength">> THEN {"band"}
    ELSE IF BandDims(wavelength_bands[1]) = {} THEN {"none"}
    ELSE BandDims(wavelength_bands[1])

\* A number of Q bins is given for data that has a Q coordinate to take the
\* least and the greatest of.
InitMerge ==
    /\ op = "merge_spectra"
    /\ inp \in {x \in
           {[data |-> d, q_bins |-> q, wavelength_bands |-> b, final_dims |-> f] :
               d \in UNION {{EventData(g, c), DenseData(g, c)} : <<g, c>> \in
                              UNION {{g2} \X Detections(g2) : g2 \in QGeometries}},
               q \in QBinsChoices,
               b \in {None} \cup {Some(c) : c \in FlatBands \cup ShapedBands \cup IllFormedBands},
               f \in {None, Some("Q")}} :
           (x.q_bins.int /\ x.data.bins) => Flatten(x.data.events) # <<>>}
    /\ out = None
    /\ pc = "call"

MergeSpectra ==
    /\ pc = "call"
    /\ op = "merge_spectra"
    /\ \E band_dim \in PopChoices(inp.wavelength_bands) :
          out' = merge_spectra(inp.data, inp.q_bins, inp.wavelength_bands, inp.final_dims, band_dim)
    /\ pc' = "return"
    /\ UNCHANGED <<op, inp>>

SpecMerge == InitMerge /\ [][MergeSpectra]_vars

\* The summed value of every cell of a merged quantity.
Summed(a) ==
    [dims |-> a.dims, shape |-> a.shape,
     cells |-> [k \in DOMAIN a.cells |->
                  IF a.bins THEN SumSeq(Map(a.cells[k], LAMBDA e : e.weight)) ELSE a.cells[k]]]

\* A band coordinate the merger is written for: flat, or one dimension
\* besides wavelength.
WellFormed(wavelength_bands) ==
    /\ "wavelength" \in Range(wavelength_bands.dims)
    /\ ndim(wavelength_bands) \in {1, 2}

\* The wavelength ranges of the bands, in the order supplied.
RangesOf(wavelength_bands) == collapse(wavelength_bands)

\* C4 (as claimed): a band coordinate that has no or several dimensions
\* besides wavelength (and is not flat) makes merge_spectra fail on both
\* paths; no result is returned.
C4_BandAmbiguityFatal ==
    (Returned("merge_spectra") /\ inp.wavelength_bands # None
        /\ ndim(inp.wavelength_bands[1]) # 1
        /\ Cardinality(BandDims(inp.wavelength_bands[1])) # 1)
    => out.status = "error"

\* C5: one flat two-edge band over the full wavelength range gives the
\* summed values and the dimensions that no band gives, on both paths.
SpansFullRange(c) ==
    /\ c.dims = <<"wavelength">>
    /\ c.shape = <<2>>
    /\ c.data[1] <= MergeWavEdges[1]
    /\ c.data[2] >= MergeWavEdges[Len(MergeWavEdges)]

C5_BandCoverage ==
    (Returned("merge_spectra") /\ inp.wavelength_bands # None
        /\ SpansFullRange(inp.wavelength_bands[1]))
    => /\ out.status = "ok"
       /\ LET noband == merge_spectra(inp.data, inp.q_bins, None, inp.final_dims, "none")
          IN  noband.status = "ok" /\ Summed(out.value) = Summed(noband.value)

\* Two events of different pixels were merged under one full-range band.
C5_Witness ==
    /\ Returned("merge_spectra")
    /\ inp.data.bins
    /\ inp.wavelength_bands = Some(Coord(<<"wavelength">>, <<2>>, <<0, 4>>))
    /\ \A p \in DOMAIN inp.data.events : inp.data.events[p] # <<>>
    /\ out.status = "ok"
    /\ \E k \in DOMAIN out.value.cells : Len(out.value.cells[k]) = 2

\* The dense dataset that carries the counts of an event-form dataset per
\* pixel and wavelength bin (an empty cell contributes nothing, whatever its
\* Q coordinate).
EquivalentDense(data) ==
    LET cell(p, b) == SelectSeq(data.events[p], LAMBDA e : BinOf(MergeWavEdges, e.wavelength) = b)
    IN  [bins |-> FALSE, dims |-> <<"pixel", "wavelength">>, wavelength |-> MergeWavEdges,
         Q |-> [p \in DOMAIN data.events |-> [b \in 1..NBins(MergeWavEdges) |->
                  IF cell(p, b) = <<>> THEN 0 ELSE cell(p, b)[1].Q]],
         values |-> [p \in DOMAIN data.events |-> [b \in 1..NBins(MergeWavEdges) |->
                  SumSeq(Map(cell(p, b), LAMBDA e : e.weight))]]]

\* The merged event data and the merged equivalent dense data agree.
PathsAgree ==
    \A band_dim \in PopChoices(inp.wavelength_bands) :
        LET dense == merge_spectra(EquivalentDense(inp.data), inp.q_bins, inp.wavelength_bands,
                                   inp.final_dims, band_dim)
        IN  /\ out.status = "ok"
            /\ dense.status = "ok"
            /\ Summed(out.value) = Summed(dense.value)

\* Every band edge is an edge of the dense wavelength bins.
Aligned(wavelength_bands) ==
    wavelength_bands = None \/ Range(wavelength_bands[1].data) \subseteq Range(MergeWavEdges)

\* C6 (as claimed): with the same Q bin edges and the same bands (if any)
\* the event path and the dense path give the same summed value in every Q
\* bin and band.
C6_PathsAgree ==
    (Returned("merge_spectra") /\ inp.data.bins /\ ~inp.q_bins.int
        /\ (inp.wavelength_bands # None => WellFormed(inp.wavelength_bands[1])))
    => PathsAgree

\* C6 (amended): the two paths agree when there are no bands or every band
\* edge is an edge of the dense data's wavelength bins.
C6_PathsAgreeAligned ==
    (Returned("merge_spectra") /\ inp.data.bins /\ ~inp.q_bins.int
        /\ (inp.wavelength_bands # None => WellFormed(inp.wavelength_bands[1]))
        /\ Aligned(inp.wavelength_bands))
    => PathsAgree

\* Events of both wavelength bins were merged under the bands [0, 4), [0, 2).
C6_Witness ==
    /\ Returned("merge_spectra")
    /\ inp.data.bins
    /\ ~inp.q_bins.int
    /\ inp.wavelength_bands = Some(Coord(<<"band", "wavelength">>, <<2, 2>>, <<0, 4, 0, 2>>))
    /\ \E p \in DOMAIN inp.data.events : \E k \in DOMAIN inp.data.events[p] :
          inp.data.events[p][k].wavelength = 3 /\ inp.data.events[p][k].Q < 2
    /\ \E p \in DOMAIN inp.data.events : \E k \in DOMAIN inp.data.events[p] :
          inp.data.events[p][k].wavelength = 1 /\ inp.data.events[p][k].Q < 2
    /\ out.status = "ok"
    /\ SumSeq(Summed(out.value).cells) = 3

\* The number of Q bins of the result before the squeeze.
NumQBins == to_q_bins(inp.q_bins).n

\* The names a band dimension can have.
BandNames == IF inp.wavelength_bands = None THEN {} ELSE PopChoices(inp.wavelength_bands)

\* C8 (as claimed): with the default final dimensions the output has the
\* dimension Q, a band dimension whenever bands were supplied, and no other.
C8_DimsQAndBand ==
    (Returned("merge_spectra") /\ inp.final_dims = None /\ out.status = "ok")
    => /\ "Q" \in Range(out.value.dims)
       /\ inp.wavelength_bands # None => Range(out.value.dims) \cap BandNames # {}
       /\ Range(out.value.dims) \subseteq {"Q"} \cup BandNames

\* C8 (amended): with the default final dimensions the output has no
\* dimension besides Q and a band dimension; it has Q exactly when there are
\* two or more Q bins and the band dimension exactly when two or more bands
\* were supplied: one Q bin and one band are squeezed away.
C8_DimsSqueezed ==
    (Returned("merge_spectra") /\ inp.final_dims = None /\ out.status = "ok")
    => LET nbands == IF inp.wavelength_bands = None THEN 0
                     ELSE Len(RangesOf(inp.wavelength_bands[1]))
       IN  /\ Len(out.value.dims) = Cardinality(Range(out.value.dims))
           /\ Range(out.value.dims) \subseteq {"Q"} \cup BandNames
           /\ "Q" \in Range(out.value.dims) <=> NumQBins >= 2
           /\ Range(out.value.dims) \cap BandNames # {} <=> nbands >= 2
           /\ (NumQBins >= 2 /\ nbands >= 2) => out.value.dims[2] = "Q"
           /\ Len(out.value.cells) = (IF NumQBins >= 2 THEN NumQBins ELSE 1)
                                       * (IF nbands >= 2 THEN nbands ELSE 1)

\* Dense data was merged into one Q bin under one flat band: no dimension
\* is left.
C8_Witness ==
    /\ Returned("merge_spectra")
    /\ ~inp.data.bins
    /\ inp.final_dims = None
    /\ inp.wavelength_bands # None
    /\ inp.wavelength_bands[1].dims = <<"wavelength">>
    /\ NumQBins = 1
    /\ out.status = "ok"
    /\ out.value.dims = <<>>
    /\ out.value.cells[1] > 0

MaxNormEvents == 2

\* Event-form numerators with up to MaxNormEvents events spread over the two
\* Q bins of NormQEdges, so that one bin can hold several events.
SummedEventNumerators ==
    UNION {UNION {{[bins |-> TRUE, edges |-> NormQEdges, events |-> <<a, b>>] :
                      a \in [1..la -> NormEvents(1)], b \in [1..lb -> NormEvents(2)]} :
                  lb \in 0..(MaxNormEvents - la)} :
           la \in 0..MaxNormEvents}

\* Denominators without variances; a Q bin that no pixel contributes to
\* has the value 0.
VarianceFreeDenominators ==
    {[bins |-> FALSE, edges |-> NormQEdges, values |-> v, variances |-> None] :
        v \in [1..NBins(NormQEdges) -> 0..MaxWeight]}

InitNormalizeEvents ==
    /\ op = "normalize"
    /\ inp \in {[numerator |-> n, denominator |-> d] :
                   n \in SummedEventNumerators \cup DenseNumerators,
                   d \in VarianceFreeDenominators}
    /\ out = None
    /\ pc = "call"

SpecNormalizeEvents == InitNormalizeEvents /\ [][Normalize]_vars

\* Floating-point reading of a quotient num/den of non-negative numbers:
\* 0/0 is NaN and x/0 with x > 0 is +inf.
IsNaN(x) == x.den = 0 /\ x.num = 0

IsInf(x) == x.den = 0 /\ x.num # 0

FloatAdd(a, b) ==
    IF IsNaN(a) \/ IsNaN(b) THEN [num |-> 0, den |-> 0]
    ELSE IF IsInf(a) \/ IsInf(b) THEN [num |-> 1, den |-> 0]
    ELSE RatAdd(a, b)

\* Equality of floating-point values: NaN equals nothing.
FloatEq(a, b) ==
    /\ ~IsNaN(a)
    /\ ~IsNaN(b)
    /\ IF IsInf(a) \/ IsInf(b) THEN IsInf(a) /\ IsInf(b)
       ELSE a.num * b.den = b.num * a.den

\* bins.sum() of the normalized events of one bin: 0 for a bin without events.
RECURSIVE FloatSum(_)
FloatSum(s) == IF s = <<>> THEN Rat(0) ELSE FloatAdd(Head(s), FloatSum(Tail(s)))

\* The dense-mode normalization of the same counts: the numerator is
\* histogrammed first and then divided elementwise.
DenseMode == normalize(hist(inp.numerator), inp.denominator)

EventModeCase ==
    /\ Returned("normalize")
    /\ inp.numerator.bins
    /\ inp.denominator.variances = None

\* Every event of the result is the input event with weight and variance
\* divided by the denominator value (and its square) of the event's Q bin.
EachEventDivided ==
    /\ out.status = "ok"
    /\ out.value.bins
    /\ \A i \in DOMAIN inp.numerator.events :
          /\ Len(out.value.events[i]) = Len(inp.numerator.events[i])
          /\ \A k \in DOMAIN inp.numerator.events[i] :
                LET e == inp.numerator.events[i][k]
                    r == out.value.events[i][k]
                    d == inp.denominator.values[BinOf(inp.denominator.edges, e.Q)]
                IN  /\ BinOf(inp.denominator.edges, e.Q) = i
                    /\ r.Q = e.Q
                    /\ r.value = [num |-> e.value, den |-> d]
                    /\ r.variance = [num |-> e.variance, den |-> d * d]

\* The summed events of Q bin i equal the dense-mode value and variance.
BinAgrees(i) ==
    /\ FloatEq(FloatSum(Map(out.value.events[i], LAMBDA e : e.value)),
               DenseMode.values[i])
    /\ FloatEq(FloatSum(Map(out.value.events[i], LAMBDA e : e.variance)),
               DenseMode.variances[1][i])

AllOnes(d) == \A i \in DOMAIN d.values : d.values[i] = 1

\* normalize returned its numerator with every value (and variance) unchanged.
Unchanged ==
    /\ out.status = "ok"
    /\ out.value.bins = inp.numerator.bins
    /\ IF inp.numerator.bins
       THEN \A i \in DOMAIN inp.numerator.events :
               /\ Len(out.value.events[i]) = Len(inp.numerator.events[i])
               /\ \A k \in DOMAIN inp.numerator.events[i] :
                     /\ out.value.events[i][k].Q = inp.numerator.events[i][k].Q
                     /\ FloatEq(out.value.events[i][k].value,
                                Rat(inp.numerator.events[i][k].value))
                     /\ FloatEq(out.value.events[i][k].variance,
                                Rat(inp.numerator.events[i][k].variance))
       ELSE /\ \A i \in DOMAIN inp.numerator.values :
                  FloatEq(out.value.values[i], Rat(inp.numerator.values[i]))
            /\ (out.value.variances = None) = (inp.numerator.variances = None)
            /\ inp.numerator.variances # None =>
                  \A i \in DOMAIN inp.numerator.values :
                     FloatEq(out.value.variances[1][i], Rat(inp.numerator.variances[1][i]))

\* C11 as stated: with an event-form numerator and a denominator without
\* variances, every event is divided by the denominator value of its Q bin,
\* the summed events of every Q bin equal the dense-mode quotient of that
\* bin, and a denominator of all ones leaves the numerator unchanged.
C11_EventDenseAgree ==
    /\ EventModeCase =>
          /\ EachEventDivided
          /\ \A i \in DOMAIN inp.numerator.events : BinAgrees(i)
    /\ (Returned("normalize") /\ AllOnes(inp.denominator)) => Unchanged

\* C11 (amended): as above, but the summed events agree with the dense-mode
\* quotient in the Q bins whose denominator value is not zero; an empty bin
\* over a zero denominator sums to 0 in event mode and is 0/0 in dense mode.
C11_EventDenseAgreeNonzero ==
    /\ EventModeCase =>
          /\ EachEventDivided
          /\ \A i \in DOMAIN inp.numerator.events :
                inp.denominator.values[i] # 0 => BinAgrees(i)
    /\ (Returned("normalize") /\ AllOnes(inp.denominator)) => Unchanged

\* Two events of different Q in one bin were divided by a denominator whose
\* bins differ and are not zero.
C11_Witness ==
    /\ EventModeCase
    /\ out.value.bins
    /\ Len(inp.numerator.events[2]) = 2
    /\ inp.numerator.events[2][1].Q # inp.numerator.events[2][2].Q
    /\ inp.denominator.values[1] = 1
    /\ inp.denominator.values[2] = 2
    /\ FloatEq(FloatSum(Map(out.value.events[2], LAMBDA e : e.value)),
               [num |-> inp.numerator.events[2][1].value + inp.numerator.events[2][2].value,
                den |-> 2])

\* ------------------------------------------------------- all providers

Init ==
    \/ InitNormalize
    \/ InitNormalizeEvents
    \/ InitResample
    \/ InitSubtract
    \/ InitBroadcast
    \/ InitMerge

Next ==
    \/ Normalize
    \/ ResampleDirectBeam
    \/ SubtractBackground
    \/ PreprocessMonitorData
    \/ IofqNormWavelengthTerm
    \/ IofqDenominator
    \/ MergeSpectra

Spec == Init /\ [][Next]_vars

====
